---- MODULE Spec2Model ----
(***************************************************************************)
(* Model of the two pure functions of src/streamlit_app.py:                *)
(*   process_defi_data          (the position normalizer)                  *)
(*   get_alternatives_for_token (the alternative ranker)                   *)
(*                                                                         *)
(* JSON values are tagged records:                                         *)
(*   [k |-> "null"]                 None                                   *)
(*   [k |-> "num",  n |-> i]        a number, i in units of 10^-(Decimals+1)*)
(*   [k |-> "str",  s |-> chars]    a string, chars a sequence of 1-char   *)
(*                                  strings                                *)
(*   [k |-> "list", items |-> seq]  a list                                 *)
(*   [k |-> "dict", d |-> record]   a dict; DOMAIN d is its key set        *)
(* A Python exception is a status string ("TypeError", "AttributeError",   *)
(* "KeyError", "ValueError", "UnboundLocalError"); "none" means the code   *)
(* ran on.                                                                 *)
(* idx is the position of main's loop over the rows of df, shown the       *)
(* messages main has put on the page.                                      *)
(***************************************************************************)
EXTENDS Integers, Sequences, FiniteSets, TLC

VARIABLES pc, result, df, exc, token_symbol, llama_data, n, alternatives,
          idx, shown

vars == <<pc, result, df, exc, token_symbol, llama_data, n, alternatives,
          idx, shown>>

(***************************************************************************)
(* Bounds of the checked inputs.                                           *)
(***************************************************************************)
MaxTokens == 3
MaxModules == 2
MaxProtocols == 2
MaxPools == 3
MaxLimit == 3

(***************************************************************************)
(* Program constants.                                                      *)
(***************************************************************************)
MinBalance == 5
Decimals == 6
DefaultN == 3

\* One unit of a number is 10^-(Decimals+1): one digit below what round(6) keeps.
SubUnit == 10 ^ (Decimals + 1)
RoundStep == SubUnit \div 10 ^ Decimals

(***************************************************************************)
(* JSON constructors and Python's dynamic operations on them.              *)
(***************************************************************************)
Null == [k |-> "null"]
Num(i) == [k |-> "num", n |-> i]
Str(chars) == [k |-> "str", s |-> chars]
List(xs) == [k |-> "list", items |-> xs]
Dict(rec) == [k |-> "dict", d |-> rec]
EmptyDict == [k |-> "dict", d |-> [x \in {} |-> Null]]

IsDict(v) == v.k = "dict"
IsList(v) == v.k = "list"
IsStr(v) == v.k = "str"

\* Python truthiness: None, 0, "", [] and {} are falsy.
Truthy(v) ==
    CASE v.k = "null" -> FALSE
      [] v.k = "num" -> v.n # 0
      [] v.k = "str" -> v.s # <<>>
      [] v.k = "list" -> v.items # <<>>
      [] v.k = "dict" -> DOMAIN v.d # {}

\* dict.get(key, default); the caller has checked IsDict.
Get(v, key, default) == IF key \in DOMAIN v.d THEN v.d[key] ELSE default

\* The values `for x in v` visits; a dict yields its keys, a string its
\* characters.  None and numbers are not iterable (TypeError).
Iterable(v) == v.k \in {"list", "str", "dict"}

\* Dict keys that can occur in the inputs, with their spelling.
KeyChars ==
    [error |-> <<"e","r","r","o","r">>,
     data |-> <<"d","a","t","a">>,
     chain |-> <<"c","h","a","i","n">>,
     module |-> <<"m","o","d","u","l","e">>,
     supply |-> <<"s","u","p","p","l","y">>,
     borrow |-> <<"b","o","r","r","o","w">>]

RECURSIVE KeyList(_)
KeyList(S) ==
    IF S = {} THEN <<>>
    ELSE LET key == CHOOSE x \in S : TRUE
         IN <<Str(IF key \in DOMAIN KeyChars THEN KeyChars[key] ELSE <<"?">>)>>
                \o KeyList(S \ {key})

IterItems(v) ==
    CASE v.k = "list" -> v.items
      [] v.k = "str" -> [i \in 1..Len(v.s) |-> Str(<<v.s[i]>>)]
      [] v.k = "dict" -> KeyList(DOMAIN v.d)

\* needle occurs in hay as a contiguous run (Python's `in` on strings).
IsSubstring(needle, hay) ==
    \E i \in 0..(Len(hay) - Len(needle)) :
        \A j \in 1..Len(needle) : hay[i + j] = needle[j]

\* `key in v` for a string key: "none" when the test runs (see Contains),
\* "TypeError" when v is None or a number.
ContainsExc(v) == IF v.k \in {"null", "num"} THEN "TypeError" ELSE "none"

Contains(v, key) ==
    CASE v.k = "dict" -> key \in DOMAIN v.d
      [] v.k = "list" -> \E i \in 1..Len(v.items) :
                            /\ IsStr(v.items[i])
                            /\ v.items[i].s = KeyChars[key]
      [] v.k = "str" -> IsSubstring(KeyChars[key], v.s)

\* str(x) and f"{x}" for the values the inputs put in string-typed fields.
NoneChars == <<"N","o","n","e">>

PyStr(v) ==
    CASE v.k = "str" -> v.s
      [] v.k = "null" -> NoneChars

(***************************************************************************)
(* float(x).  Strings follow the grammar [-]digits[.digits] with at least  *)
(* one digit; anything else is a ValueError.  None, lists and dicts are a  *)
(* TypeError.                                                              *)
(***************************************************************************)
Digits == {"0","1","2","3","4","5","6","7","8","9"}

DigitVal(c) ==
    CASE c = "0" -> 0 [] c = "1" -> 1 [] c = "2" -> 2 [] c = "3" -> 3
      [] c = "4" -> 4 [] c = "5" -> 5 [] c = "6" -> 6 [] c = "7" -> 7
      [] c = "8" -> 8 [] c = "9" -> 9

RECURSIVE DigitsVal(_)
DigitsVal(cs) ==
    IF cs = <<>> THEN 0
    ELSE DigitsVal(SubSeq(cs, 1, Len(cs) - 1)) * 10 + DigitVal(cs[Len(cs)])

AllDigits(cs) == \A i \in 1..Len(cs) : cs[i] \in Digits

Unsigned(cs) == IF cs # <<>> /\ cs[1] = "-" THEN Tail(cs) ELSE cs

DotAt(cs) ==
    IF \E i \in 1..Len(cs) : cs[i] = "."
    THEN CHOOSE i \in 1..Len(cs) : cs[i] = "." /\ \A j \in 1..(i - 1) : cs[j] # "."
    ELSE Len(cs) + 1

IntPart(cs) == SubSeq(cs, 1, DotAt(cs) - 1)
FracPart(cs) == SubSeq(cs, DotAt(cs) + 1, Len(cs))

IsFloatLiteral(cs) ==
    LET u == Unsigned(cs)
    IN /\ AllDigits(IntPart(u))
       /\ AllDigits(FracPart(u))
       /\ Len(IntPart(u)) + Len(FracPart(u)) >= 1
       /\ Len(FracPart(u)) <= Decimals + 1

ParseFloat(cs) ==
    LET u == Unsigned(cs)
        frac == FracPart(u)
        mag == DigitsVal(IntPart(u)) * SubUnit
                 + DigitsVal(frac) * 10 ^ (Decimals + 1 - Len(frac))
    IN IF cs # <<>> /\ cs[1] = "-" THEN 0 - mag ELSE mag

FloatExc(v) ==
    CASE v.k = "num" -> "none"
      [] v.k = "str" -> IF IsFloatLiteral(v.s) THEN "none" ELSE "ValueError"
      [] OTHER -> "TypeError"

Float(v) == IF v.k = "num" THEN v.n ELSE ParseFloat(v.s)

\* Series.round(6): to the nearest multiple of 10^-6, ties to even.
Round6(x) ==
    LET r == x % RoundStep
        low == x - r
    IN IF r * 2 < RoundStep THEN low
       ELSE IF r * 2 > RoundStep THEN low + RoundStep
       ELSE IF (low \div RoundStep) % 2 = 0 THEN low ELSE low + RoundStep

(***************************************************************************)
(* process_defi_data.                                                      *)
(***************************************************************************)
Columns == <<"chain", "common_name", "module", "token_symbol", "balance_usd">>

\* df before any assignment (main's local is unbound until the call returns).
NoFrame == [bound |-> FALSE, columns |-> <<>>, rows |-> <<>>]
EmptyFrame == [bound |-> TRUE, columns |-> Columns, rows |-> <<>>]

LiquidityPool ==
    <<"L","i","q","u","i","d","i","t","y"," ","P","o","o","l">>

Row(chain, common_name, module, symbol, usd) ==
    [chain |-> chain, common_name |-> common_name, module |-> module,
     token_symbol |-> symbol, balance_usd |-> usd]

\* The first exception of a sequence of evaluation steps, "none" if none.
RECURSIVE FirstExc(_)
FirstExc(steps) ==
    IF steps = <<>> THEN "none"
    ELSE IF Head(steps) # "none" THEN Head(steps)
    ELSE FirstExc(Tail(steps))

\* hasattr(v, "get"): only dicts have it among JSON values.
GetExc(v) == IF IsDict(v) THEN "none" ELSE "AttributeError"

\* float(v.get(key, 0)), its exception first.
FieldFloatExc(v, key) ==
    IF IsDict(v) THEN FloatExc(Get(v, key, Num(0))) ELSE "AttributeError"

FieldFloat(v, key) == Float(Get(v, key, Num(0)))

\* except (ValueError, TypeError): continue
Caught(e) == e \in {"ValueError", "TypeError"}

\* The fields the liquidity-pool branch converts inside its try block, in
\* evaluation order: balance of both tokens, then balanceUSD of both.
PoolSteps(t0, t1) ==
    <<FieldFloatExc(t0, "balance"), FieldFloatExc(t1, "balance"),
      FieldFloatExc(t0, "balanceUSD"), FieldFloatExc(t1, "balanceUSD")>>

\* Lines 138-153: the first two supply tokens merged into one row.
PoolRows(tokens, chain, common_name, module) ==
    LET t0 == tokens[1]
        t1 == tokens[2]
        e == FirstExc(PoolSteps(t0, t1))
    IN IF e # "none"
       THEN [exc |-> IF Caught(e) THEN "none" ELSE e, rows |-> <<>>]
       ELSE [exc |-> "none",
             rows |-> <<Row(chain, common_name, module,
                            PyStr(Get(t0, "tokenSymbol", Str(<<>>))) \o <<"/">>
                                \o PyStr(Get(t1, "tokenSymbol", Str(<<>>))),
                            FieldFloat(t0, "balanceUSD")
                                + FieldFloat(t1, "balanceUSD"))>>]

\* Lines 156-165: one supply token of the single-token branch.
TokenRows(token, chain, common_name, module) ==
    LET e == FirstExc(<<GetExc(token), FieldFloatExc(token, "balanceUSD")>>)
    IN IF e # "none"
       THEN [exc |-> IF Caught(e) THEN "none" ELSE e, rows |-> <<>>]
       ELSE [exc |-> "none",
             rows |-> <<Row(chain, common_name, module,
                            PyStr(Get(token, "tokenSymbol", Str(<<>>))),
                            FieldFloat(token, "balanceUSD"))>>]

\* Variant of SingleRows: a token that fails to convert ends the loop (break
\* where the code has continue).
RECURSIVE SingleRowsBreak(_, _, _, _)
SingleRowsBreak(tokens, chain, common_name, module) ==
    IF tokens = <<>> THEN [exc |-> "none", rows |-> <<>>]
    ELSE LET h == TokenRows(Head(tokens), chain, common_name, module)
         IN IF h.exc # "none" \/ h.rows = <<>> THEN h
            ELSE LET t == SingleRowsBreak(Tail(tokens), chain, common_name, module)
                 IN [exc |-> t.exc, rows |-> h.rows \o t.rows]

\* Lines 155-165: for token in supply_tokens.
RECURSIVE SingleRows(_, _, _, _)
SingleRows(tokens, chain, common_name, module) ==
    IF tokens = <<>> THEN [exc |-> "none", rows |-> <<>>]
    ELSE LET h == TokenRows(Head(tokens), chain, common_name, module)
         IN IF h.exc # "none" THEN h
            ELSE LET t == SingleRows(Tail(tokens), chain, common_name, module)
                 IN [exc |-> t.exc, rows |-> h.rows \o t.rows]

\* Line 138: the liquidity-pool branch is taken.
IsPoolCase(module, tokens) == module = LiquidityPool /\ Len(tokens) >= 2

\* Lines 134-137: the exception of reaching portfolio['detailed']['supply'].
SupplyExc(portfolio) ==
    IF ~Contains(portfolio, "detailed") THEN "none"
    ELSE LET detailed == portfolio.d["detailed"]
         IN IF ContainsExc(detailed) # "none" THEN ContainsExc(detailed)
            ELSE IF ~Contains(detailed, "supply") THEN "none"
            ELSE IF ~IsDict(detailed) THEN "TypeError"
            ELSE "none"

HasSupplyList(portfolio) ==
    /\ Contains(portfolio, "detailed")
    /\ IsDict(portfolio.d["detailed"])
    /\ Contains(portfolio.d["detailed"], "supply")
    /\ IsList(portfolio.d["detailed"].d["supply"])

\* Lines 132-165: one portfolio module.
ModuleRows(portfolio, chain, common_name) ==
    IF ~IsDict(portfolio) THEN [exc |-> "AttributeError", rows |-> <<>>]
    ELSE IF SupplyExc(portfolio) # "none"
    THEN [exc |-> SupplyExc(portfolio), rows |-> <<>>]
    ELSE IF ~HasSupplyList(portfolio) THEN [exc |-> "none", rows |-> <<>>]
    ELSE LET module == PyStr(Get(portfolio, "module", Str(<<>>)))
             tokens == portfolio.d["detailed"].d["supply"].items
         IN IF IsPoolCase(module, tokens)
            THEN PoolRows(tokens, chain, common_name, module)
            ELSE SingleRows(tokens, chain, common_name, module)

\* Line 131: for portfolio in protocol.get('portfolio', []).
RECURSIVE PortfolioRows(_, _, _)
PortfolioRows(modules, chain, common_name) ==
    IF modules = <<>> THEN [exc |-> "none", rows |-> <<>>]
    ELSE LET h == ModuleRows(Head(modules), chain, common_name)
         IN IF h.exc # "none" THEN h
            ELSE LET t == PortfolioRows(Tail(modules), chain, common_name)
                 IN [exc |-> t.exc, rows |-> h.rows \o t.rows]

\* Lines 126-131: one protocol entry.
ProtocolRows(protocol) ==
    IF ~IsDict(protocol) THEN [exc |-> "AttributeError", rows |-> <<>>]
    ELSE LET chain == PyStr(Get(protocol, "chain", Str(<<>>)))
             common_name == PyStr(Get(protocol, "commonName", Str(<<>>)))
             portfolio == Get(protocol, "portfolio", List(<<>>))
         IN IF ~Iterable(portfolio) THEN [exc |-> "TypeError", rows |-> <<>>]
            ELSE PortfolioRows(IterItems(portfolio), chain, common_name)

\* Line 126: for protocol in result.
RECURSIVE CollectRows(_)
CollectRows(protocols) ==
    IF protocols = <<>> THEN [exc |-> "none", rows |-> <<>>]
    ELSE LET h == ProtocolRows(Head(protocols))
         IN IF h.exc # "none" THEN h
            ELSE LET t == CollectRows(Tail(protocols))
                 IN [exc |-> t.exc, rows |-> h.rows \o t.rows]

\* Variant of IsEmptyOrNotList: the isinstance test left out.
IsEmpty(v) == ~Truthy(v)

\* Line 122: the early return.
IsEmptyOrNotList(v) == ~Truthy(v) \/ ~IsList(v)

\* Line 182: df[df['balance_usd'] > 5].
KeepRow(row) == row.balance_usd > MinBalance * SubUnit

\* Line 185: df['balance_usd'].round(6).
RoundRow(row) == [row EXCEPT !.balance_usd = Round6(row.balance_usd)]

\* Lines 172-187: the table built from the collected rows.
Frame(data) ==
    LET kept == SelectSeq(data, KeepRow)
    IN [bound |-> TRUE, columns |-> Columns,
        rows |-> [i \in 1..Len(kept) |-> RoundRow(kept[i])]]

process_defi_data(v) ==
    IF IsEmptyOrNotList(v) THEN [exc |-> "none", df |-> EmptyFrame]
    ELSE IF ~Iterable(v) THEN [exc |-> "TypeError", df |-> NoFrame]
    ELSE LET r == CollectRows(IterItems(v))
         IN IF r.exc # "none" THEN [exc |-> r.exc, df |-> NoFrame]
            ELSE IF r.rows = <<>> THEN [exc |-> "none", df |-> EmptyFrame]
            ELSE [exc |-> "none", df |-> Frame(r.rows)]

(***************************************************************************)
(* Inputs of process_defi_data.  A payload is described by small integers  *)
(* and strings (which token, which shape) and then built as a JSON value.  *)
(***************************************************************************)
SeqsUpTo(S, max) == UNION {[1..len -> S] : len \in 0..max}

C_SOL == <<"S","O","L">>
C_USDC == <<"U","S","D","C">>
C_ETH == <<"E","T","H">>
C_DAI == <<"D","A","I">>
C_USDT == <<"U","S","D","T">>
C_BTC == <<"B","T","C">>
C_STETH == <<"s","t","E","T","H">>
C_Solana == <<"S","o","l","a","n","a">>
C_Raydium == <<"R","a","y","d","i","u","m">>
C_Ethereum == <<"E","t","h","e","r","e","u","m">>
C_Lido == <<"L","i","d","o">>
C_Lending == <<"L","e","n","d","i","n","g">>
C_Staking == <<"S","t","a","k","i","n","g">>
C_abc == <<"a","b","c">>

\* Whole and sub-unit parts of a number.
Amount(whole, sub) == whole * SubUnit + sub

\* The supply tokens the payloads are built from.
TokenPool ==
    << Dict([tokenSymbol |-> Str(C_SOL), balanceUSD |-> Str(<<"1","0","0">>)]),
       Dict([tokenSymbol |-> Str(C_USDC), balance |-> Str(<<"5","0">>),
             balanceUSD |-> Str(<<"5","0">>)]),
       Dict([tokenSymbol |-> Str(C_ETH), balanceUSD |-> Str(C_abc)]),
       Dict([tokenSymbol |-> Str(C_DAI), balanceUSD |-> Num(Amount(5, 1))]),
       Dict([tokenSymbol |-> Str(C_USDT), balanceUSD |-> Num(Amount(5, 0))]),
       Dict([tokenSymbol |-> Str(C_BTC), balance |-> Str(C_abc),
             balanceUSD |-> Num(Amount(100, 0))]),
       Dict([balanceUSD |-> Num(Amount(6, 0))]),
       Dict([tokenSymbol |-> Str(C_SOL)]),
       Dict([tokenSymbol |-> Str(C_USDC), balanceUSD |-> Null]),
       Null >>

\* What fills a supply list beyond its second entry: copies of the second
\* token of TokenPool, a well-formed one.
ExtraTokens(count) == [i \in 1..count |-> 2]

\* Supply lists, as sequences of TokenPool indices: any first two tokens,
\* then ExtraToken up to MaxTokens entries.
SupplyShapes ==
    SeqsUpTo(1..Len(TokenPool), 2) \cup
    {s \o ExtraTokens(extra) :
        s \in [1..2 -> 1..Len(TokenPool)], extra \in 1..(MaxTokens - 2)}

Supply(shape) == List([i \in 1..Len(shape) |-> TokenPool[shape[i]]])

ModuleNames == <<LiquidityPool, C_Lending>>

\* Shapes of one portfolio module other than "has a supply list".
OddModuleKinds ==
    {"no_detailed", "detailed_null", "detailed_number", "detailed_string",
     "no_supply", "supply_null", "supply_dict", "not_a_dict"}

ModuleShapes ==
    {[kind |-> "supply", name |-> nm, supply |-> s] :
        nm \in 1..Len(ModuleNames), s \in SupplyShapes}
    \cup {[kind |-> kd, name |-> 2, supply |-> <<>>] : kd \in OddModuleKinds}

Module(shape) ==
    LET name == Str(ModuleNames[shape.name])
    IN CASE shape.kind = "supply" ->
               Dict([module |-> name,
                     detailed |-> Dict([supply |-> Supply(shape.supply)])])
         [] shape.kind = "no_detailed" -> Dict([module |-> name])
         [] shape.kind = "detailed_null" ->
               Dict([module |-> name, detailed |-> Null])
         [] shape.kind = "detailed_number" ->
               Dict([module |-> name, detailed |-> Num(Amount(1, 0))])
         [] shape.kind = "detailed_string" ->
               Dict([module |-> name, detailed |-> Str(KeyChars["supply"])])
         [] shape.kind = "no_supply" ->
               Dict([module |-> name, detailed |-> Dict([borrow |-> List(<<>>)])])
         [] shape.kind = "supply_null" ->
               Dict([module |-> name, detailed |-> Dict([supply |-> Null])])
         [] shape.kind = "supply_dict" ->
               Dict([module |-> name,
                     detailed |-> Dict([supply |-> TokenPool[1]])])
         [] shape.kind = "not_a_dict" -> Null

\* A well-formed sibling module and protocol entry: each yields one row.
GoodModule ==
    Dict([module |-> Str(C_Staking),
          detailed |-> Dict([supply |-> List(<<
              Dict([tokenSymbol |-> Str(C_STETH),
                    balanceUSD |-> Num(Amount(20, 0))])>>)])])

GoodProtocol ==
    Dict([chain |-> Str(C_Ethereum), commonName |-> Str(C_Lido),
          portfolio |-> List(<<GoodModule>>)])

\* x with `before` copies of sibling in front of it and `after` behind.
Among(x, sibling, before, after) ==
    [i \in 1..before |-> sibling] \o <<x>> \o [i \in 1..after |-> sibling]

Placements(max) ==
    {pl \in [before : 0..(max - 1), after : 0..(max - 1)] :
        pl.before + pl.after <= max - 1}

OddPortfolioKinds ==
    {"no_portfolio", "portfolio_null", "portfolio_number", "portfolio_string",
     "portfolio_empty", "not_a_dict"}

ProtocolShapes ==
    {[kind |-> "portfolio", module |-> m, place |-> pl] :
        m \in ModuleShapes, pl \in Placements(MaxModules)}
    \cup {[kind |-> kd, module |-> [kind |-> "no_detailed", name |-> 2, supply |-> <<>>],
           place |-> [before |-> 0, after |-> 0]] : kd \in OddPortfolioKinds}

Protocol(shape) ==
    LET chain == Str(C_Solana)
        name == Str(C_Raydium)
    IN CASE shape.kind = "portfolio" ->
               Dict([chain |-> chain, commonName |-> name,
                     portfolio |-> List(Among(Module(shape.module), GoodModule,
                                              shape.place.before,
                                              shape.place.after))])
         [] shape.kind = "no_portfolio" ->
               Dict([chain |-> chain, commonName |-> name])
         [] shape.kind = "portfolio_null" ->
               Dict([chain |-> chain, commonName |-> name, portfolio |-> Null])
         [] shape.kind = "portfolio_number" ->
               Dict([chain |-> chain, commonName |-> name,
                     portfolio |-> Num(Amount(1, 0))])
         [] shape.kind = "portfolio_string" ->
               Dict([chain |-> chain, commonName |-> name,
                     portfolio |-> Str(C_abc)])
         [] shape.kind = "portfolio_empty" ->
               Dict([chain |-> chain, commonName |-> name,
                     portfolio |-> List(<<>>)])
         [] shape.kind = "not_a_dict" -> Str(C_abc)

OddResultKinds ==
    {"none", "error_dict", "string", "number", "zero", "empty_list",
     "empty_dict", "empty_string"}

ResultShapes ==
    {[kind |-> "list", protocol |-> p, place |-> pl] :
        p \in ProtocolShapes, pl \in Placements(MaxProtocols)}
    \cup {[kind |-> kd,
           protocol |-> [kind |-> "no_portfolio",
                         module |-> [kind |-> "no_detailed", name |-> 2,
                                     supply |-> <<>>],
                         place |-> [before |-> 0, after |-> 0]],
           place |-> [before |-> 0, after |-> 0]] : kd \in OddResultKinds}

Result(shape) ==
    CASE shape.kind = "list" ->
             List(Among(Protocol(shape.protocol), GoodProtocol,
                        shape.place.before, shape.place.after))
      [] shape.kind = "none" -> Null
      [] shape.kind = "error_dict" -> Dict([error |-> Str(C_abc)])
      [] shape.kind = "string" -> Str(C_abc)
      [] shape.kind = "number" -> Num(Amount(1, 0))
      [] shape.kind = "zero" -> Num(0)
      [] shape.kind = "empty_list" -> List(<<>>)
      [] shape.kind = "empty_dict" -> EmptyDict
      [] shape.kind = "empty_string" -> Str(<<>>)

(***************************************************************************)
(* get_alternatives_for_token.                                             *)
(***************************************************************************)
Lower == <<"a","b","c","d","e","f","g","h","i","j","k","l","m",
           "n","o","p","q","r","s","t","u","v","w","x","y","z">>
Upper == <<"A","B","C","D","E","F","G","H","I","J","K","L","M",
           "N","O","P","Q","R","S","T","U","V","W","X","Y","Z">>

UpperChar(c) ==
    IF \E i \in 1..Len(Lower) : Lower[i] = c
    THEN Upper[CHOOSE i \in 1..Len(Lower) : Lower[i] = c]
    ELSE c

\* str.upper()
ToUpper(cs) == [i \in 1..Len(cs) |-> UpperChar(cs[i])]

\* Variant of Split: empty pieces dropped.
RECURSIVE SplitDropEmpty(_)
SplitDropEmpty(cs) ==
    IF \E i \in 1..Len(cs) : cs[i] = "/"
    THEN LET at == CHOOSE i \in 1..Len(cs) :
                       cs[i] = "/" /\ \A j \in 1..(i - 1) : cs[j] # "/"
         IN (IF at = 1 THEN <<>> ELSE <<SubSeq(cs, 1, at - 1)>>)
                \o SplitDropEmpty(SubSeq(cs, at + 1, Len(cs)))
    ELSE IF cs = <<>> THEN <<>> ELSE <<cs>>

\* str.split('/'): always at least one piece, empty pieces kept.
RECURSIVE Split(_)
Split(cs) ==
    IF \E i \in 1..Len(cs) : cs[i] = "/"
    THEN LET at == CHOOSE i \in 1..Len(cs) :
                       cs[i] = "/" /\ \A j \in 1..(i - 1) : cs[j] # "/"
         IN <<SubSeq(cs, 1, at - 1)>> \o Split(SubSeq(cs, at + 1, Len(cs)))
    ELSE <<cs>>

\* Variant of NoPoolData: `and` where the code has `or`.
NoDataKey(v) == Truthy(v) /\ ~Contains(v, "data")

\* Line 76: the early return.  `'data' in llama_data` on a number raises.
NoPoolData(v) == ~Truthy(v) \/ ~Contains(v, "data")
NoPoolDataExc(v) == IF Truthy(v) THEN ContainsExc(v) ELSE "none"

\* Line 85: the exception of pool['symbol'].upper().
SymbolExc(pool) ==
    IF ~IsDict(pool) THEN "TypeError"
    ELSE IF "symbol" \notin DOMAIN pool.d THEN "KeyError"
    ELSE IF ~IsStr(pool.d["symbol"]) THEN "AttributeError"
    ELSE "none"

\* Variant of PoolMatches: the comparison without upper().
PoolMatchesExactCase(tokens, pool) ==
    \E i \in 1..Len(tokens) : IsSubstring(tokens[i], pool.d["symbol"].s)

\* Line 85: any(token.upper() in pool['symbol'].upper() for token in tokens).
PoolMatches(tokens, pool) ==
    \E i \in 1..Len(tokens) :
        IsSubstring(ToUpper(tokens[i]), ToUpper(pool.d["symbol"].s))

\* Lines 86-92: the exception of building the alternative.
EntryExc(pool) ==
    IF {"project", "chain"} \subseteq DOMAIN pool.d THEN "none" ELSE "KeyError"

Entry(pool) ==
    [symbol |-> pool.d["symbol"], project |-> pool.d["project"],
     chain |-> pool.d["chain"], apy |-> Get(pool, "apy", Num(0)),
     tvlUsd |-> Get(pool, "tvlUsd", Num(0))]

\* Lines 83-92: for pool in llama_data['data'].
RECURSIVE SelectPools(_, _)
SelectPools(tokens, pools) ==
    IF pools = <<>> THEN [exc |-> "none", alts |-> <<>>]
    ELSE LET pool == Head(pools)
             e == IF SymbolExc(pool) # "none" THEN SymbolExc(pool)
                  ELSE IF PoolMatches(tokens, pool) THEN EntryExc(pool)
                  ELSE "none"
         IN IF e # "none" THEN [exc |-> e, alts |-> <<>>]
            ELSE LET t == SelectPools(tokens, Tail(pools))
                     h == IF PoolMatches(tokens, pool) THEN <<Entry(pool)>>
                          ELSE <<>>
                 IN [exc |-> t.exc, alts |-> h \o t.alts]

\* Line 95: list.sort compares the keys of every element with a neighbour's
\* once there are two; a None key makes that comparison a TypeError.
SortExc(alts) ==
    IF Len(alts) >= 2 /\ \E i \in 1..Len(alts) : alts[i].apy.k # "num"
    THEN "TypeError" ELSE "none"

\* Variant of InsertByApy: x placed in front of the elements with its key.
InsertBeforeEqual(sorted, x) ==
    LET ahead == Cardinality({i \in 1..Len(sorted) : sorted[i].apy.n > x.apy.n})
    IN SubSeq(sorted, 1, ahead) \o <<x>> \o SubSeq(sorted, ahead + 1, Len(sorted))

\* x placed behind every element whose key is at least its own: with
\* reverse=True equal keys keep their input order.
InsertByApy(sorted, x) ==
    LET ahead == Cardinality({i \in 1..Len(sorted) : sorted[i].apy.n >= x.apy.n})
    IN SubSeq(sorted, 1, ahead) \o <<x>> \o SubSeq(sorted, ahead + 1, Len(sorted))

\* Line 95: alternatives.sort(key=lambda x: x['apy'], reverse=True)
RECURSIVE SortByApy(_)
SortByApy(alts) ==
    IF Len(alts) <= 1 THEN alts
    ELSE InsertByApy(SortByApy(SubSeq(alts, 1, Len(alts) - 1)), alts[Len(alts)])

\* Variant of Slice: one entry too many.
SliceOneMore(alts, limit) ==
    IF limit >= 0
    THEN SubSeq(alts, 1, IF limit + 1 < Len(alts) THEN limit + 1 ELSE Len(alts))
    ELSE SubSeq(alts, 1, Len(alts) + limit + 1)

\* Line 96: alternatives[:n]; a negative n counts from the end.
Slice(alts, limit) ==
    IF limit >= 0
    THEN SubSeq(alts, 1, IF limit < Len(alts) THEN limit ELSE Len(alts))
    ELSE SubSeq(alts, 1, Len(alts) + limit)

get_alternatives_for_token(symbol, data, limit) ==
    IF NoPoolDataExc(data) # "none"
    THEN [exc |-> NoPoolDataExc(data), alts |-> <<>>]
    ELSE IF NoPoolData(data) THEN [exc |-> "none", alts |-> <<>>]
    ELSE IF ~IsDict(data) THEN [exc |-> "TypeError", alts |-> <<>>]
    ELSE IF ~Iterable(data.d["data"]) THEN [exc |-> "TypeError", alts |-> <<>>]
    ELSE LET sel == SelectPools(Split(symbol), IterItems(data.d["data"]))
         IN IF sel.exc # "none" THEN [exc |-> sel.exc, alts |-> <<>>]
            ELSE IF SortExc(sel.alts) # "none"
            THEN [exc |-> SortExc(sel.alts), alts |-> <<>>]
            ELSE [exc |-> "none", alts |-> Slice(SortByApy(sel.alts), limit)]

(***************************************************************************)
(* Inputs of get_alternatives_for_token.                                   *)
(***************************************************************************)
C_p(c) == Str(<<"p", c>>)

\* The yield pools the pool lists are built from; `project` tells them apart.
PoolPool ==
    << Dict([symbol |-> Str(<<"E","T","H","-","U","S","D","C">>),
             project |-> C_p("1"), chain |-> Str(C_Ethereum),
             apy |-> Num(5), tvlUsd |-> Num(100)]),
       Dict([symbol |-> Str(C_USDT), project |-> C_p("2"),
             chain |-> Str(C_Ethereum), apy |-> Num(10), tvlUsd |-> Num(100)]),
       Dict([symbol |-> Str(C_BTC), project |-> C_p("3"),
             chain |-> Str(C_Ethereum), apy |-> Num(50), tvlUsd |-> Num(100)]),
       Dict([symbol |-> Str(<<"w","e","t","h">>), project |-> C_p("4"),
             chain |-> Str(C_Solana), apy |-> Num(10), tvlUsd |-> Num(100)]),
       Dict([symbol |-> Str(<<"U","S","D","C","-","U","S","D","T">>),
             project |-> C_p("5"), chain |-> Str(C_Solana)]),
       Dict([project |-> C_p("6"), chain |-> Str(C_Solana),
             apy |-> Num(7), tvlUsd |-> Num(100)]),
       Dict([symbol |-> Null, project |-> C_p("7"), chain |-> Str(C_Solana),
             apy |-> Num(7), tvlUsd |-> Num(100)]),
       Dict([symbol |-> Str(C_ETH), project |-> C_p("8"),
             chain |-> Str(C_Solana), apy |-> Null, tvlUsd |-> Num(100)]) >>

IsInjective(f) == \A i, j \in DOMAIN f : f[i] = f[j] => i = j

\* Pool lists, as sequences of distinct PoolPool indices.
PoolShapes == {s \in SeqsUpTo(1..Len(PoolPool), MaxPools) : IsInjective(s)}

OddLlamaKinds == {"none", "empty_dict", "error_dict", "data_null"}

LlamaShapes ==
    {[kind |-> "pools", pools |-> s] : s \in PoolShapes}
    \cup {[kind |-> kd, pools |-> <<>>] : kd \in OddLlamaKinds}

Llama(shape) ==
    CASE shape.kind = "pools" ->
             Dict([data |-> List([i \in 1..Len(shape.pools) |->
                                      PoolPool[shape.pools[i]]])])
      [] shape.kind = "none" -> Null
      [] shape.kind = "empty_dict" -> EmptyDict
      [] shape.kind = "error_dict" -> Dict([error |-> Str(C_abc)])
      [] shape.kind = "data_null" -> Dict([data |-> Null])

\* The queried token symbols.
TokenSymbols ==
    { <<"E","T","H","/","U","S","D","T">>, <<"e","t","h">>, C_USDC,
      <<"D","O","G","E">>, <<>>, <<"/">>, <<"E","T","H","/">> }

Limits == (0 - 2)..MaxLimit

(***************************************************************************)
(* The state machine: one call of either function on one input.            *)
(***************************************************************************)
InitProcess ==
    /\ pc = "process"
    /\ \E shape \in ResultShapes : result = Result(shape)
    /\ df = NoFrame
    /\ exc = "none"
    /\ token_symbol = <<>>
    /\ llama_data = Null
    /\ n = DefaultN
    /\ alternatives = <<>>
    /\ idx = 0
    /\ shown = <<>>

InitRank ==
    /\ pc = "rank"
    /\ result = Null
    /\ df = NoFrame
    /\ exc = "none"
    /\ token_symbol \in TokenSymbols
    /\ \E shape \in LlamaShapes : llama_data = Llama(shape)
    /\ n \in Limits
    /\ alternatives = <<>>
    /\ idx = 0
    /\ shown = <<>>

Init == InitProcess \/ InitRank

\* df = process_defi_data(result)
ProcessDefiData ==
    /\ pc = "process"
    /\ LET out == process_defi_data(result)
       IN /\ df' = out.df
          /\ exc' = out.exc
    /\ pc' = "processed"
    /\ UNCHANGED <<result, token_symbol, llama_data, n, alternatives, idx, shown>>

\* alternatives = get_alternatives_for_token(token_symbol, llama_data, n)
GetAlternativesForToken ==
    /\ pc = "rank"
    /\ LET out == get_alternatives_for_token(token_symbol, llama_data, n)
       IN /\ alternatives' = out.alts
          /\ exc' = out.exc
    /\ pc' = "ranked"
    /\ UNCHANGED <<result, df, token_symbol, llama_data, n, idx, shown>>

Next == ProcessDefiData \/ GetAlternativesForToken

Spec == Init /\ [][Next]_vars

(***************************************************************************)
(* main, lines 207-395: one run with a wallet address entered.  The two    *)
(* fetches return whatever the endpoints answer; the page widgets between  *)
(* the steps are taken not to raise.                                       *)
(***************************************************************************)

\* What get_user_defi_positions can return: the parsed body or an error
\* dict.  The bodies are one protocol entry with one module of at most one
\* supply token, the pair SOL, USDC or the pair of two symbol-less tokens.
NoPlace == [before |-> 0, after |-> 0]
NoModule == [kind |-> "no_detailed", name |-> 2, supply |-> <<>>]
NoProtocol == [kind |-> "no_portfolio", module |-> NoModule, place |-> NoPlace]

MainSupplyShapes == SeqsUpTo(1..Len(TokenPool), 1) \cup {<<1, 2>>, <<7, 7>>}

MainModuleShapes ==
    {[kind |-> "supply", name |-> nm, supply |-> s] :
        nm \in 1..Len(ModuleNames), s \in MainSupplyShapes}
    \cup {[kind |-> kd, name |-> 2, supply |-> <<>>] : kd \in OddModuleKinds}

MainProtocolShapes ==
    {[kind |-> "portfolio", module |-> m, place |-> NoPlace] :
        m \in MainModuleShapes}
    \cup {[kind |-> kd, module |-> NoModule, place |-> NoPlace] :
              kd \in OddPortfolioKinds}

MainResultShapes ==
    {[kind |-> "list", protocol |-> p, place |-> NoPlace] :
        p \in MainProtocolShapes}
    \cup {[kind |-> kd, protocol |-> NoProtocol, place |-> NoPlace] :
              kd \in {"error_dict", "none", "empty_list"}}

\* What get_defi_llama_yields can return: at most one pool, or the three
\* pools ETH-USDC, USDT, BTC.
MainLlamaShapes ==
    {[kind |-> "pools", pools |-> s] :
        s \in SeqsUpTo(1..Len(PoolPool), 1) \cup {<<1, 2, 3>>}}
    \cup {[kind |-> kd, pools |-> <<>>] : kd \in OddLlamaKinds}

\* Lines 342-343: f"{x:.2f}%" and format_number(x) need numbers.
DisplayExc(alts) ==
    IF \E i \in 1..Len(alts) : alts[i].apy.k # "num" \/ alts[i].tvlUsd.k # "num"
    THEN "TypeError" ELSE "none"

InitMain ==
    /\ pc = "main"
    /\ result = Null
    /\ df = NoFrame
    /\ exc = "none"
    /\ token_symbol = <<>>
    /\ llama_data = Null
    /\ n = DefaultN
    /\ alternatives = <<>>
    /\ idx = 0
    /\ shown = <<>>

\* Line 209: result = get_user_defi_positions(wallet_address, api_key)
FetchPositions ==
    /\ pc = "main"
    /\ \E shape \in MainResultShapes : result' = Result(shape)
    /\ pc' = "positions_fetched"
    /\ UNCHANGED <<df, exc, token_symbol, llama_data, n, alternatives, idx, shown>>

\* Lines 211-329: the positions table, or the message that there is none.
\* df is assigned only when process_defi_data returns.
HandlePositions ==
    /\ pc = "positions_fetched"
    /\ IF ContainsExc(result) # "none"
       THEN /\ pc' = "crashed"
            /\ exc' = ContainsExc(result)
            /\ UNCHANGED <<df, shown>>
       ELSE IF Contains(result, "error")
       THEN /\ pc' = "positions_done"
            /\ shown' = Append(shown, "Error retrieving data")
            /\ UNCHANGED <<df, exc>>
       ELSE \E out \in {process_defi_data(result)} :
               /\ pc' = "positions_done"
               /\ df' = out.df
               /\ shown' = Append(shown,
                      IF out.exc # "none" THEN "Error processing data"
                      ELSE IF out.df.rows = <<>> THEN "No data found to display"
                      ELSE "DeFi Positions")
               /\ UNCHANGED exc
    /\ UNCHANGED <<result, token_symbol, llama_data, n, alternatives, idx>>

\* Line 330: llama_result = get_defi_llama_yields()
FetchYields ==
    /\ pc = "positions_done"
    /\ \E shape \in MainLlamaShapes : llama_data' = Llama(shape)
    /\ pc' = "yields_fetched"
    /\ UNCHANGED <<result, df, exc, token_symbol, n, alternatives, idx, shown>>

\* Lines 332-337 and 394-395: the test of the yields and the start of
\* `for idx, row in df.iterrows()`, which reads the local df.
CheckYields ==
    /\ pc = "yields_fetched"
    /\ IF ContainsExc(llama_data) # "none"
       THEN /\ pc' = "crashed"
            /\ exc' = ContainsExc(llama_data)
            /\ UNCHANGED <<idx, shown>>
       ELSE IF Contains(llama_data, "error")
       THEN /\ pc' = "end"
            /\ shown' = Append(shown, "Could not retrieve DefiLlama data")
            /\ UNCHANGED <<idx, exc>>
       ELSE IF ~df.bound
       THEN /\ pc' = "crashed"
            /\ exc' = "UnboundLocalError"
            /\ shown' = Append(shown, "DeFi Investment Alternatives")
            /\ UNCHANGED idx
       ELSE /\ pc' = IF df.rows = <<>> THEN "end" ELSE "alternatives"
            /\ idx' = 1
            /\ shown' = Append(shown, "DeFi Investment Alternatives")
            /\ UNCHANGED exc
    /\ UNCHANGED <<result, df, token_symbol, llama_data, n, alternatives>>

\* Lines 337-393: one pass of the loop, the alternatives of row idx.
ShowAlternatives ==
    /\ pc = "alternatives"
    /\ token_symbol' = df.rows[idx].token_symbol
    /\ \E out \in {get_alternatives_for_token(df.rows[idx].token_symbol,
                                               llama_data, DefaultN)} :
       \E e \in {IF out.exc # "none" THEN out.exc ELSE DisplayExc(out.alts)} :
          IF e # "none"
          THEN /\ pc' = "crashed"
               /\ exc' = e
               /\ UNCHANGED <<alternatives, idx, shown>>
          ELSE /\ pc' = IF idx = Len(df.rows) THEN "end" ELSE "alternatives"
               /\ alternatives' = out.alts
               /\ idx' = idx + 1
               /\ shown' = Append(shown,
                      IF out.alts = <<>>
                      THEN "No alternatives found for this token"
                      ELSE "Best Available APY")
               /\ UNCHANGED exc
    /\ UNCHANGED <<result, df, llama_data, n>>

NextMain ==
    \/ FetchPositions
    \/ HandlePositions
    \/ FetchYields
    \/ CheckYields
    \/ ShowAlternatives

SpecMain == InitMain /\ [][NextMain]_vars

(***************************************************************************)
(* Vocabulary of the properties: the payload read as the normalizer's      *)
(* contract describes it, independently of how the code walks it.          *)
(***************************************************************************)
Processed == pc = "processed"
Ranked == pc = "ranked"
Returned == exc = "none"

Protocols == IF IsList(result) THEN result.items ELSE <<>>

HasList(v, key) == IsDict(v) /\ key \in DOMAIN v.d /\ IsList(v.d[key])

ModulesOf(protocol) ==
    IF HasList(protocol, "portfolio") THEN protocol.d["portfolio"].items ELSE <<>>

\* The supply tokens of a module, none when detailed.supply is no list.
SupplyOf(module) ==
    IF IsDict(module) /\ "detailed" \in DOMAIN module.d
           /\ HasList(module.d["detailed"], "supply")
    THEN module.d["detailed"].d["supply"].items
    ELSE <<>>

\* <<i, j>>: module j of protocol entry i.
Sites ==
    UNION {{<<i, j>> : j \in 1..Len(ModulesOf(Protocols[i]))} :
               i \in 1..Len(Protocols)}

ModuleAt(site) == ModulesOf(Protocols[site[1]])[site[2]]

TextOf(v, key) == IF key \in DOMAIN v.d THEN PyStr(v.d[key]) ELSE <<>>

\* What a row of the table says about where it comes from.
LabelAt(site) ==
    <<TextOf(Protocols[site[1]], "chain"), TextOf(ModuleAt(site), "module")>>

\* A module whose rows can be told from every other module's rows.
Traceable(site) ==
    /\ IsDict(ModuleAt(site))
    /\ \A other \in Sites \ {site} :
           IsDict(ModuleAt(other)) => LabelAt(other) # LabelAt(site)

RowsFrom(site) ==
    LET FromSite(row) == <<row.chain, row.module>> = LabelAt(site)
    IN SelectSeq(df.rows, FromSite)

Brief(rows) ==
    [i \in 1..Len(rows) |->
        [token_symbol |-> rows[i].token_symbol, balance_usd |-> rows[i].balance_usd]]

IsPoolModule(module) ==
    TextOf(module, "module") = LiquidityPool /\ Len(SupplyOf(module)) >= 2

UsdCoerces(token) ==
    IsDict(token) /\ FloatExc(Get(token, "balanceUSD", Num(0))) = "none"

Usd(token) == Float(Get(token, "balanceUSD", Num(0)))

AllDicts(items) == \A i \in 1..Len(items) : IsDict(items[i])

\* The payload departs from the schema only where a portfolio, a detailed
\* or a supply is missing or of the wrong shape.
OnlyShapeFaults ==
    /\ IsList(result)
    /\ AllDicts(Protocols)
    /\ \A i \in 1..Len(Protocols) : AllDicts(ModulesOf(Protocols[i]))
    /\ \A site \in Sites : AllDicts(SupplyOf(ModuleAt(site)))

\* Nothing but token fields departs from the schema.
SoundShape ==
    /\ OnlyShapeFaults
    /\ \A i \in 1..Len(Protocols) :
           "portfolio" \in DOMAIN Protocols[i].d => HasList(Protocols[i], "portfolio")
    /\ \A site \in Sites :
           "detailed" \in DOMAIN ModuleAt(site).d =>
               IsDict(ModuleAt(site).d["detailed"])

(***************************************************************************)
(* The properties.                                                         *)
(***************************************************************************)

\* C1: process_defi_data never raises on a payload whose only faults are a
\* portfolio, a detailed or a supply that is missing or of the wrong shape:
\* the call returns a table.
C1_NeverRaisesOnShapeFaults ==
    (Processed /\ OnlyShapeFaults) => (Returned /\ df.bound)

\* C2: a "Liquidity Pool" module with at least two supply tokens whose first
\* two balanceUSD values coerce and sum to more than 5 yields exactly one
\* row, symbol[0]/symbol[1] with the (rounded) sum as balance_usd.
C2_PoolModuleYieldsOneMergedRow ==
    (Processed /\ Returned) =>
        \A site \in Sites :
            LET module == ModuleAt(site)
                t0 == SupplyOf(module)[1]
                t1 == SupplyOf(module)[2]
            IN (/\ Traceable(site)
                /\ IsPoolModule(module)
                /\ UsdCoerces(t0) /\ UsdCoerces(t1)
                /\ Usd(t0) + Usd(t1) > MinBalance * SubUnit)
               => Brief(RowsFrom(site)) =
                      <<[token_symbol |-> TextOf(t0, "tokenSymbol") \o <<"/">>
                                              \o TextOf(t1, "tokenSymbol"),
                         balance_usd |-> Round6(Usd(t0) + Usd(t1))]>>

\* C3: every row of the returned table has balance_usd strictly greater
\* than 5.
C3_EveryRowAboveMinBalance ==
    (Processed /\ Returned) =>
        \A i \in 1..Len(df.rows) : df.rows[i].balance_usd > MinBalance * SubUnit

\* The pool list as the ranker's contract describes it.
PoolList == IF HasList(llama_data, "data") THEN llama_data.d["data"].items ELSE <<>>

\* The '/'-separated pieces of token_symbol, as <<first, last>> positions:
\* the maximal runs without a '/', empty ones included.
Pieces ==
    {piece \in (1..(Len(token_symbol) + 1)) \X (0..Len(token_symbol)) :
        /\ piece[2] >= piece[1] - 1
        /\ \A i \in piece[1]..piece[2] : token_symbol[i] # "/"
        /\ piece[1] = 1 \/ token_symbol[piece[1] - 1] = "/"
        /\ piece[2] = Len(token_symbol) \/ token_symbol[piece[2] + 1] = "/"}

\* pool's symbol contains a piece of token_symbol, letter case aside.
Overlaps(pool) ==
    /\ IsDict(pool) /\ "symbol" \in DOMAIN pool.d /\ IsStr(pool.d["symbol"])
    /\ \E piece \in Pieces :
           IsSubstring(ToUpper(SubSeq(token_symbol, piece[1], piece[2])),
                       ToUpper(pool.d["symbol"].s))

Candidates == {i \in 1..Len(PoolList) : Overlaps(PoolList[i])}

ApyOf(pool) == IF "apy" \in DOMAIN pool.d THEN pool.d["apy"] ELSE Num(0)

\* alternatives[k] is the entry made from pool i.
MadeFrom(k, i) ==
    /\ alternatives[k].symbol = PoolList[i].d["symbol"]
    /\ alternatives[k].project = PoolList[i].d["project"]
    /\ alternatives[k].chain = PoolList[i].d["chain"]
    /\ alternatives[k].apy = ApyOf(PoolList[i])

Returns == 1..Len(alternatives)

Least(a, b) == IF a < b THEN a ELSE b

\* C4: for a limit of at least 0 the result is the first `limit` of the
\* matching pools by apy descending: min(limit, matches) distinct entries,
\* each made from a pool whose symbol contains a piece of token_symbol, in
\* descending apy order, and no matching pool left out has a higher apy than
\* a returned one.
C4_TopMatchesByApy ==
    (Ranked /\ Returned /\ n >= 0) =>
        /\ Len(alternatives) = Least(n, Cardinality(Candidates))
        /\ \A k \in Returns : \E i \in Candidates : MadeFrom(k, i)
        /\ \A k, l \in Returns :
               alternatives[k].project = alternatives[l].project => k = l
        /\ \A k \in Returns \ {1} :
               alternatives[k - 1].apy.n >= alternatives[k].apy.n
        /\ \A i \in Candidates :
               (\A k \in Returns : ~MadeFrom(k, i)) =>
                   \A k \in Returns : ApyOf(PoolList[i]).n <= alternatives[k].apy.n

\* C4 witness: "ETH/USDT" over ETH-USDC(5), USDT(10), BTC(50) with limit 3
\* has returned [USDT(10), ETH-USDC(5)].
C4_Witness ==
    /\ Ranked /\ Returned /\ n = 3
    /\ token_symbol = <<"E","T","H","/","U","S","D","T">>
    /\ PoolList = <<PoolPool[1], PoolPool[2], PoolPool[3]>>
    /\ Len(alternatives) = 2
    /\ MadeFrom(1, 2) /\ MadeFrom(2, 1)

\* C5 (as stated): the length of the result is at most `limit` for every
\* integer limit, 0 and negative values included.
C5_LengthAtMostLimit ==
    (Ranked /\ Returned) => Len(alternatives) <= n

\* C5 (amended): for a limit of at least 0 the length is at most `limit`; a
\* negative limit drops the last |limit| of the ranked matches instead, so
\* the length is max(0, matches - |limit|).
C5_LengthAtMostNaturalLimit ==
    (Ranked /\ Returned) =>
        /\ n >= 0 => Len(alternatives) <= n
        /\ n < 0 => Len(alternatives) =
                        (IF Cardinality(Candidates) + n > 0
                         THEN Cardinality(Candidates) + n ELSE 0)

\* C5 witness: more pools matched than the limit allows and the result was
\* cut to the limit.
C5_Witness ==
    /\ Ranked /\ Returned
    /\ n >= 1 /\ Cardinality(Candidates) > n
    /\ Len(alternatives) = n

\* C6: adjacent entries of the result are in descending apy order, and two
\* returned pools of equal apy are in the order they have in the pool list.
C6_DescendingAndStable ==
    (Ranked /\ Returned) =>
        /\ \A k \in Returns \ {1} :
               alternatives[k - 1].apy.n >= alternatives[k].apy.n
        /\ \A k, l \in Returns :
               (k < l /\ alternatives[k].apy = alternatives[l].apy) =>
                   \A i, j \in Candidates :
                       (MadeFrom(k, i) /\ MadeFrom(l, j)) => i < j

\* C6 witness: two pools of equal apy were returned, the lowercase "weth"
\* pool ahead of the USDT pool as in the pool list.
C6_Witness ==
    /\ Ranked /\ Returned
    /\ \E k \in Returns \ {1} :
           /\ alternatives[k - 1].apy = alternatives[k].apy
           /\ alternatives[k - 1].project = PoolPool[4].d["project"]
           /\ alternatives[k].project = PoolPool[2].d["project"]

\* C7: get_alternatives_for_token returns a list for every list of pool
\* entries, also when a pool's symbol or apy is absent or null.
C7_ToleratesMalformedPools ==
    (Ranked /\ HasList(llama_data, "data") /\ AllDicts(PoolList)) => Returned

\* The rows a single-token module is to yield: one per token whose balanceUSD
\* coerces to more than 5, in supply order.
SingleExpected(tokens) ==
    LET Valid(token) == UsdCoerces(token) /\ Usd(token) > MinBalance * SubUnit
        kept == SelectSeq(tokens, Valid)
    IN [i \in 1..Len(kept) |->
           [token_symbol |-> TextOf(kept[i], "tokenSymbol"),
            balance_usd |-> Round6(Usd(kept[i]))]]

SingleSites ==
    {site \in Sites : Traceable(site) /\ ~IsPoolModule(ModuleAt(site))
                          /\ AllDicts(SupplyOf(ModuleAt(site)))}

\* C8: in a single-token module every supply token is handled on its own: a
\* token whose balanceUSD does not coerce yields no row and does not stop
\* the call, and every token of the module whose balanceUSD is a number
\* above 5 yields exactly one row with its symbol and balance.
C8_TokensHandledIndependently ==
    Processed =>
        /\ SoundShape => Returned
        /\ Returned =>
               \A site \in SingleSites :
                   Brief(RowsFrom(site)) = SingleExpected(SupplyOf(ModuleAt(site)))

\* C8 witness: a single-token module with a token that does not coerce ahead
\* of a valid one has yielded the valid token's row.
C8_Witness ==
    /\ Processed /\ Returned
    /\ \E site \in SingleSites :
           LET tokens == SupplyOf(ModuleAt(site))
           IN /\ \E i, j \in 1..Len(tokens) :
                     /\ i < j
                     /\ ~UsdCoerces(tokens[i])
                     /\ UsdCoerces(tokens[j])
                     /\ Usd(tokens[j]) > MinBalance * SubUnit
              /\ Len(RowsFrom(site)) >= 1

\* C9: an input that is empty or is not a list yields an empty table with
\* the five expected columns and no error.
C9_EmptyTableForNonList ==
    (Processed /\ (~IsList(result) \/ result.items = <<>>)) =>
        /\ Returned
        /\ df.bound
        /\ df.columns = <<"chain", "common_name", "module", "token_symbol",
                          "balance_usd">>
        /\ df.rows = <<>>

\* C9 witness: the call on an {error: ...} dict has returned.
C9_Witness ==
    /\ Processed /\ Returned
    /\ IsDict(result) /\ "error" \in DOMAIN result.d
    /\ df.bound

\* C10: when llama_data is None, empty, lacks 'data' or has an empty 'data'
\* list, the result is the empty sequence and no error, whatever the token
\* symbol.
C10_NoPoolsNoAlternatives ==
    (Ranked /\ (\/ llama_data = Null
                \/ (IsDict(llama_data) /\ "data" \notin DOMAIN llama_data.d)
                \/ (HasList(llama_data, "data") /\ PoolList = <<>>))) =>
        (Returned /\ alternatives = <<>>)

\* C10 witness: the call with a non-empty token symbol and llama_data None
\* has returned.
C10_Witness ==
    /\ Ranked /\ Returned
    /\ llama_data = Null
    /\ token_symbol # <<>>

\* A pool entry with every field the ranker and the page read.
WellFormedPool(pool) ==
    /\ IsDict(pool)
    /\ {"symbol", "project", "chain"} \subseteq DOMAIN pool.d
    /\ IsStr(pool.d["symbol"])
    /\ ApyOf(pool).k = "num"
    /\ Get(pool, "tvlUsd", Num(0)).k = "num"

\* The outcomes of the two fetches a run of main is to withstand: a list of
\* positions or an error value, valid yield data or an error value.
PositionsAsExpected ==
    IsList(result) \/ (IsDict(result) /\ "error" \in DOMAIN result.d)

YieldsAsExpected ==
    \/ IsDict(llama_data) /\ "error" \in DOMAIN llama_data.d
    \/ /\ HasList(llama_data, "data")
       /\ \A i \in 1..Len(PoolList) : WellFormedPool(PoolList[i])

\* C11: a run of main with a wallet address entered ends without an
\* unhandled exception for every outcome of the two fetches and of the
\* processing; when the positions fetch returns an error value or the
\* processing fails, the alternatives step over the position table does not
\* crash although the yields fetch succeeded.
C11_RunEndsWithoutException ==
    (PositionsAsExpected /\ YieldsAsExpected) => pc # "crashed"

\* token_symbol is empty or has an empty '/'-separated component.
HasEmptyPiece ==
    \/ token_symbol = <<>>
    \/ token_symbol[1] = "/"
    \/ token_symbol[Len(token_symbol)] = "/"
    \/ \E i \in 1..(Len(token_symbol) - 1) :
           token_symbol[i] = "/" /\ token_symbol[i + 1] = "/"

LacksSymbol(token) == IsDict(token) /\ "tokenSymbol" \notin DOMAIN token.d

\* C12: a token symbol that is "" or has an empty '/'-separated component
\* selects every pool of the list, so the result is the top entries by apy
\* of the whole list (the first n for n >= 0), related to the token or not;
\* process_defi_data yields such a symbol, "/", for a liquidity-pool module
\* whose two tokens lack tokenSymbol.
C12_EmptyPieceSelectsEveryPool ==
    /\ (Ranked /\ Returned /\ HasEmptyPiece) =>
           /\ Len(alternatives) =
                  (IF n >= 0 THEN Least(n, Len(PoolList))
                   ELSE IF Len(PoolList) + n > 0 THEN Len(PoolList) + n ELSE 0)
           /\ \A k \in Returns : \E i \in 1..Len(PoolList) : MadeFrom(k, i)
           /\ \A i \in 1..Len(PoolList) :
                  (\A k \in Returns : ~MadeFrom(k, i)) =>
                      \A k \in Returns :
                          ApyOf(PoolList[i]).n <= alternatives[k].apy.n
    /\ (Processed /\ Returned) =>
           \A site \in Sites :
               (/\ Traceable(site)
                /\ IsPoolModule(ModuleAt(site))
                /\ LacksSymbol(SupplyOf(ModuleAt(site))[1])
                /\ LacksSymbol(SupplyOf(ModuleAt(site))[2]))
               => \A i \in 1..Len(RowsFrom(site)) :
                      RowsFrom(site)[i].token_symbol = <<"/">>

\* C12 witness: the query "/" over ETH-USDC(5), USDT(10), BTC(50) has
\* returned all three pools, the BTC pool first.
C12_Witness ==
    /\ Ranked /\ Returned /\ n = 3
    /\ token_symbol = <<"/">>
    /\ PoolList = <<PoolPool[1], PoolPool[2], PoolPool[3]>>
    /\ Len(alternatives) = 3
    /\ MadeFrom(1, 3) /\ MadeFrom(2, 2) /\ MadeFrom(3, 1)

====
